---- MODULE Spec2Model ----
(***************************************************************************)
(* Model of src/rtsp_module.cpp: class RTSPReader (constructor, read(),    *)
(* release(), cleanup(), destructor) and the cv::Mat buffer export.        *)
(*                                                                         *)
(* The FFmpeg / RGA / OpenCV calls are the environment: each call's result *)
(* is an input drawn with \E from the results the code distinguishes.      *)
(* One reader object is modelled; the caller is single-threaded, so a      *)
(* read() in progress (pc = "reading") excludes every other operation.     *)
(***************************************************************************)
EXTENDS Integers, Sequences, FiniteSets, TLC

(* ------------------------------ bounds -------------------------------- *)

\* packets the source can deliver before av_read_frame reports end of file
MaxPackets == 3
\* tracks the demuxer can report
MaxStreams == 2
\* resolutions the stream can switch between
MaxRes == 2
\* release() calls that are counted (further calls are still made)
MaxReleases == 2

(* ------------------------ values of the program ------------------------ *)

\* pointer members: nullptr, a handle obtained from the library, or the
\* indeterminate non-null value of a member that was never initialised
NULL == "null"
LIVE == "live"
WILD == "wild"

\* video_stream_index(-1) in the member initialiser list
NoStream == -1

\* channels and bytes per channel element of CV_8UC3
CV_8UC3_channels == 3
CV_8UC3_elemSize1 == 1

StreamTypes == {"video", "audio"}
CodecIds == {"H264", "HEVC", "OTHER"}
\* AV_PIX_FMT_DRM_PRIME is the hardware-resident surface format; the others
\* are host-resident
HostFormats == {"NV12", "YUV420P"}
PixFormats == {"DRM_PRIME"} \cup HostFormats
\* the picture sizes the decoder reports: wider than high, so that rows and
\* columns cannot be confused
Resolutions == {[width |-> 2 * r, height |-> r] : r \in 1..MaxRes}

\* the throw sites of the file, named by the spec's taxonomy entry each one
\* plays; every one of them throws std::runtime_error
ErrOpen == "Failed to open RTSP stream"
ErrStreamInfo == "Failed to find stream info"
ErrNoVideo == "No video stream found"
ErrUnsupported == "Unsupported codec"
ErrAlloc == "Failed to allocate codec context"
ErrParams == "Failed to copy codec parameters"
ErrCodecOpen == "Failed to open codec"
ErrDecode == "Error decoding frame"
ErrSws == "Failed to create sws context"
ErrRead == "Failed to read frame from RTSP stream (EOF or error)"
NoErr == "none"

\* every throw statement of the file is `throw std::runtime_error(message)`:
\* the exception that leaves the constructor or read() for a message
ExceptionOf(message) == [type |-> "std::runtime_error", what |-> message]

\* the failure modes a caller may want to tell apart, and the message thrown
\* for each; end of file and a transport failure both leave the while loop
\* of read() and reach the same throw statement
FailureModes == {"stream_ended", "transport_failure", "unsupported_codec",
                 "no_video_track", "open_failure", "decode_error",
                 "conversion_error"}
MessageOf(mode) ==
    CASE mode = "stream_ended" -> ErrRead
      [] mode = "transport_failure" -> ErrRead
      [] mode = "unsupported_codec" -> ErrUnsupported
      [] mode = "no_video_track" -> ErrNoVideo
      [] mode = "open_failure" -> ErrOpen
      [] mode = "decode_error" -> ErrDecode
      [] mode = "conversion_error" -> ErrSws

VARIABLES
    pc,                  \* "init", "ready", "reading", "failed", "crashed", "destroyed"
    netInit,             \* avformat_network_init() calls not yet matched by a deinit
    fmt_ctx,             \* AVFormatContext* member
    codec_ctx,           \* AVCodecContext* member
    hw_device_ctx,       \* AVBufferRef* member
    pkt,                 \* AVPacket* member
    frame,               \* AVFrame* member
    hw_frame,            \* AVFrame* member
    video_stream_index,  \* int member
    use_rga,             \* bool member
    codec_id,            \* codecpar->codec_id of the selected track ("NONE": not read yet)
    codecSel,            \* which decoder `codec` names: "none", "rkmpp", "generic"
    hwBound,             \* codec_ctx->hw_device_ctx is set
    hwRefs,              \* references held on the DRM device buffer
    ctorErr,             \* what the constructor threw (NoErr: nothing)
    hwCreate,            \* av_hwdevice_ctx_create: "notTried", "ok", "failed"
    codecOpened,         \* avcodec_open2 succeeded
    freed,               \* resource -> number of times cleanup() released it
    wildFree,            \* cleanup() passed an indeterminate pointer to a free function
    released,            \* number of release() calls made on this reader
    remaining,           \* packets the source can still deliver (0 once it reported end of file)
    pulled,              \* packets av_read_frame has delivered so far
    frameBuf,            \* content of *frame (the last frame the decoder wrote)
    call,                \* bookkeeping of the read() call in progress / last ended
    hist,                \* bookkeeping over the reader's lifetime
    result               \* outcome of the last read() call that ended

vars == <<pc, netInit, fmt_ctx, codec_ctx, hw_device_ctx, pkt, frame, hw_frame,
          video_stream_index, use_rga, codec_id, codecSel, hwBound, hwRefs,
          ctorErr, hwCreate, codecOpened, freed, wildFree, released, remaining, pulled,
          frameBuf, call, hist, result>>

Resources == {"pkt", "frame", "hw_frame", "codec_ctx", "fmt_ctx", "hw_device_ctx"}

\* an AVFrame as av_frame_alloc() leaves it: no data, format AV_PIX_FMT_NONE
EmptyFrame == [format |-> "NONE", width |-> 0, height |-> 0]

\* a cv::Mat that holds nothing
NoMat == [rows |-> 0, cols |-> 0, channels |-> 0, elemSize1 |-> 0]

NoResult == [kind |-> "none", err |-> NoErr, mat |-> NoMat, path |-> "none",
             seq |-> 0, cause |-> "none"]

\* what the last loop iteration of read() did: the branch it took, the
\* stream_index of the packet it pulled, whether the packet was sent, whether
\* the decoder delivered a frame, the frame handed to the converters, and
\* the result of each library call it made ("none": not called)
NoCall == [start |-> 0, last |-> "none", idx |-> NoStream, sent |-> FALSE,
           decoded |-> FALSE, src |-> EmptyFrame, xfer |-> "none",
           rga |-> "none", sws |-> "none", unrefs |-> 0, held |-> 0,
           resized |-> FALSE]

\* what has happened to this reader so far: a decoder failure (on send or
\* on receive), a read() that threw the decode error, a failed transfer, a
\* failed hardware convert, end of file reported by the source; and, for as
\* long as the source has delivered only packets of the selected track that
\* the decoder accepted and whose frames were delivered (allValid): how many
\* of them the decoder answered with no-output-yet, and how each read() ended
NoHist == [hiccup |-> FALSE, decodeThrown |-> FALSE, xferFail |-> FALSE,
           rgaFail |-> FALSE, eof |-> FALSE,
           allValid |-> TRUE, withheld |-> 0, outcomes |-> <<>>]

\* read() calls whose outcome is recorded
MaxReads == MaxPackets + 1

\* the source delivered something else than a valid packet of the selected
\* track, or a library call on the decoded frame failed
Invalid(h) == [h EXCEPT !.allValid = FALSE, !.withheld = 0, !.outcomes = <<>>]

\* the decoder took a valid packet and has no frame to give yet
Withheld(h) == IF h.allValid THEN [h EXCEPT !.withheld = @ + 1] ELSE h

\* a read() call ended with `res`: a frame, or the message of the exception
Ended(h, res) ==
    IF h.allValid /\ Len(h.outcomes) < MaxReads
    THEN [h EXCEPT !.outcomes =
              Append(@, IF res.kind = "frame" THEN "frame" ELSE res.err)]
    ELSE h

Init ==
    /\ pc = "init"
    /\ netInit = 0
    /\ fmt_ctx = NULL
    /\ codec_ctx = NULL
    /\ hw_device_ctx = NULL
    /\ pkt = NULL
    /\ frame = NULL
    /\ hw_frame = NULL
    /\ video_stream_index = NoStream
    /\ use_rga = TRUE
    /\ codec_id = "NONE"
    /\ codecSel = "none"
    /\ hwBound = FALSE
    /\ hwRefs = 0
    /\ ctorErr = NoErr
    /\ hwCreate = "notTried"
    /\ codecOpened = FALSE
    /\ freed = [r \in Resources |-> 0]
    /\ wildFree = FALSE
    /\ released = 0
    /\ remaining = MaxPackets
    /\ pulled = 0
    /\ frameBuf = EmptyFrame
    /\ call = NoCall
    /\ hist = NoHist
    /\ result = NoResult

(* ---------------------------- cleanup() -------------------------------- *)

\* the members cleanup() and the constructor work on, as one record
Self ==
    [pkt |-> pkt, frame |-> frame, hw_frame |-> hw_frame, codec_ctx |-> codec_ctx,
     fmt_ctx |-> fmt_ctx, hw_device_ctx |-> hw_device_ctx, netInit |-> netInit,
     video_stream_index |-> video_stream_index, use_rga |-> use_rga,
     codec_id |-> codec_id, codecSel |-> codecSel, hwBound |-> hwBound,
     hwRefs |-> hwRefs, hwCreate |-> hwCreate, codecOpened |-> codecOpened,
     freed |-> freed,
     wildFree |-> wildFree, crashed |-> FALSE, err |-> NoErr]

\* the three members the initialiser list leaves out
Uninitialised == {"pkt", "frame", "hw_frame"}

\* void cleanup(): `if (p) { free(&p); p = nullptr; }` for each member in
\* turn, then avformat_network_deinit().  Freeing an indeterminate non-null
\* pointer is undefined: the process dies at that free (survive = FALSE),
\* before anything later is released, or it goes on with a corrupted heap.
cleanup(s, survive) ==
    LET wild == {r \in Uninitialised : s[r] = WILD}
        unbind == IF s.codec_ctx = LIVE /\ s.hwBound THEN 1 ELSE 0
        unref == IF s.hw_device_ctx = LIVE THEN 1 ELSE 0
    IN  IF wild # {} /\ ~survive
        THEN [s EXCEPT !.wildFree = TRUE, !.crashed = TRUE]
        ELSE [s EXCEPT !.pkt = NULL, !.frame = NULL, !.hw_frame = NULL,
                       !.codec_ctx = NULL, !.fmt_ctx = NULL,
                       !.hw_device_ctx = NULL,
                       !.hwBound = IF s.codec_ctx = LIVE THEN FALSE ELSE @,
                       !.hwRefs = @ - unbind - unref,
                       !.freed = [r \in Resources |->
                                    IF s[r] = LIVE THEN @[r] + 1 ELSE @[r]],
                       !.wildFree = @ \/ wild # {},
                       !.netInit = @ - 1]

(* --------------------------- constructor ------------------------------- *)

\* the track lists the demuxer can report
RECURSIVE SeqsUpTo(_, _)
SeqsUpTo(S, n) ==
    IF n = 0 THEN {<<>>}
    ELSE LET shorter == SeqsUpTo(S, n - 1)
         IN  shorter \cup {Append(q, x) : q \in shorter, x \in S}

StreamLists == SeqsUpTo(StreamTypes, MaxStreams)

\* the loop over fmt_ctx->streams: index (from 0) of the first video track
FirstVideo(streams) ==
    LET vids == {i \in 1..Len(streams) : streams[i] = "video"}
    IN  IF vids = {} THEN NoStream
        ELSE (CHOOSE i \in vids : \A j \in vids : i <= j) - 1

\* "Try to find rkmpp decoder first": only H264 and HEVC have a vendor
\* decoder name; rkmpp tells whether one of the two names is registered
FindRkmpp(codecId, rkmpp) ==
    IF codecId \in {"H264", "HEVC"} /\ rkmpp THEN "rkmpp" ELSE "none"

\* "Fallback to default decoder if rkmpp not available"
FindCodec(codecId, rkmpp, generic) ==
    IF FindRkmpp(codecId, rkmpp) # "none" THEN "rkmpp"
    ELSE IF generic THEN "generic" ELSE "none"

\* a bug: the fallback branch leaves the flag set
UseRgaAfterLookup_Keep(codecId, rkmpp) == TRUE

\* use_rga after the decoder lookup: cleared when the fallback branch ran
UseRgaAfterLookup(codecId, rkmpp) == FindRkmpp(codecId, rkmpp) # "none"

\* a bug: the flag left set when the DRM device could not be created
UseRgaAfterHwCreate_Keep(use, hwOk) == use

\* use_rga after the `if (use_rga)` block that creates the DRM device
UseRgaAfterHwCreate(use, hwOk) == use /\ hwOk

\* a throw out of the constructor; a process that died in cleanup() throws
\* nothing
Throw(s, e) == IF s.crashed THEN s ELSE [s EXCEPT !.err = e]

CtorInputs ==
    [openOk : BOOLEAN, infoOk : BOOLEAN, streams : StreamLists,
     codecId : CodecIds, rkmpp : BOOLEAN, generic : BOOLEAN,
     allocOk : BOOLEAN, paramsOk : BOOLEAN, hwOk : BOOLEAN,
     codecOpenOk : BOOLEAN, wild : SUBSET Uninitialised, survive : BOOLEAN]

\* the state the member initialiser list and avformat_network_init() leave
AfterInitList(s, in) ==
    [s EXCEPT !.fmt_ctx = NULL, !.codec_ctx = NULL, !.hw_device_ctx = NULL,
              !.video_stream_index = NoStream, !.use_rga = TRUE,
              !.pkt = IF "pkt" \in in.wild THEN WILD ELSE NULL,
              !.frame = IF "frame" \in in.wild THEN WILD ELSE NULL,
              !.hw_frame = IF "hw_frame" \in in.wild THEN WILD ELSE NULL,
              !.netInit = @ + 1]

\* what the open-input failure branch releases before it throws
OpenFailure(s, in) == s

\* from the hardware block to the end of the constructor
CtorOpenCodec(s, in) ==
    LET tryHw == s.use_rga
        s1 == IF ~tryHw THEN s
              ELSE IF ~in.hwOk
              THEN [s EXCEPT !.use_rga = UseRgaAfterHwCreate(s.use_rga, FALSE),
                             !.hwCreate = "failed"]
              ELSE [s EXCEPT !.use_rga = UseRgaAfterHwCreate(s.use_rga, TRUE),
                             !.hwCreate = "ok", !.hw_device_ctx = LIVE,
                             !.hwBound = TRUE, !.hwRefs = 2]
    IN  IF ~in.codecOpenOk
        THEN Throw(cleanup(s1, in.survive), ErrCodecOpen)
        ELSE [s1 EXCEPT !.codecOpened = TRUE,
                        !.pkt = LIVE, !.frame = LIVE, !.hw_frame = LIVE]

\* from the decoder lookup to the hardware block
CtorCodec(s, in) ==
    LET s1 == [s EXCEPT !.codec_id = in.codecId,
                        !.codecSel = FindCodec(in.codecId, in.rkmpp, in.generic),
                        !.use_rga = UseRgaAfterLookup(in.codecId, in.rkmpp)]
    IN  IF s1.codecSel = "none"
        THEN Throw(cleanup(s1, in.survive), ErrUnsupported)
        ELSE IF ~in.allocOk
        THEN Throw(cleanup(s1, in.survive), ErrAlloc)
        ELSE LET s2 == [s1 EXCEPT !.codec_ctx = LIVE]
             IN  IF ~in.paramsOk
                 THEN Throw(cleanup(s2, in.survive), ErrParams)
                 ELSE CtorOpenCodec(s2, in)

\* RTSPReader::RTSPReader(url)
Ctor(s, in) ==
    LET s0 == AfterInitList(s, in)
    IN  IF ~in.openOk
        THEN Throw(OpenFailure(s0, in), ErrOpen)
        ELSE LET s1 == [s0 EXCEPT !.fmt_ctx = LIVE]
             IN  IF ~in.infoOk
                 THEN Throw(cleanup(s1, in.survive), ErrStreamInfo)
                 ELSE LET s2 == [s1 EXCEPT !.video_stream_index =
                                             FirstVideo(in.streams)]
                      IN  IF s2.video_stream_index < 0
                          THEN Throw(cleanup(s2, in.survive), ErrNoVideo)
                          ELSE CtorCodec(s2, in)

\* assignment of a member record back to the variables
SetSelf(s) ==
    /\ pkt' = s.pkt
    /\ frame' = s.frame
    /\ hw_frame' = s.hw_frame
    /\ codec_ctx' = s.codec_ctx
    /\ fmt_ctx' = s.fmt_ctx
    /\ hw_device_ctx' = s.hw_device_ctx
    /\ netInit' = s.netInit
    /\ video_stream_index' = s.video_stream_index
    /\ use_rga' = s.use_rga
    /\ codec_id' = s.codec_id
    /\ codecSel' = s.codecSel
    /\ hwBound' = s.hwBound
    /\ hwRefs' = s.hwRefs
    /\ hwCreate' = s.hwCreate
    /\ codecOpened' = s.codecOpened
    /\ freed' = s.freed
    /\ wildFree' = s.wildFree

readVars == <<released, remaining, pulled, frameBuf, call, hist, result>>

\* `RTSPReader(url)` from Python: the whole constructor
Construct ==
    /\ pc = "init"
    /\ \E in \in CtorInputs :
         LET s == Ctor(Self, in)
         IN  /\ SetSelf(s)
             /\ ctorErr' = s.err
             /\ pc' = IF s.crashed THEN "crashed"
                      ELSE IF s.err # NoErr THEN "failed" ELSE "ready"
    /\ UNCHANGED readVars

\* ~RTSPReader(): cleanup() on a constructed reader
Destroy ==
    /\ pc = "ready"
    /\ \E survive \in BOOLEAN :
         LET s == cleanup(Self, survive)
         IN  /\ SetSelf(s)
             /\ pc' = IF s.crashed THEN "crashed" ELSE "destroyed"
    /\ frameBuf' = EmptyFrame
    /\ call' = NoCall
    /\ result' = NoResult
    /\ UNCHANGED <<ctorErr, released, remaining, pulled, hist>>

\* a bug: release() frees the handles itself and leaves the members pointing
\* at them
release_FreesWithoutReset ==
    /\ pc = "ready"
    /\ released' = IF released < MaxReleases THEN released + 1 ELSE released
    /\ freed' = [r \in Resources |-> IF Self[r] = LIVE THEN freed[r] + 1 ELSE freed[r]]
    /\ UNCHANGED <<pc, ctorErr, remaining, pulled, frameBuf, call, hist, result>>
    /\ UNCHANGED <<pkt, frame, hw_frame, codec_ctx, fmt_ctx, hw_device_ctx, netInit,
                   video_stream_index, use_rga, codec_id, codecSel, hwBound,
                   hwRefs, hwCreate, codecOpened, wildFree>>

\* void release(): empty body ("Destructor handles cleanup")
release ==
    /\ pc = "ready"
    /\ released' = IF released < MaxReleases THEN released + 1 ELSE released
    /\ UNCHANGED <<pc, ctorErr, remaining, pulled, frameBuf, call, hist, result>>
    /\ UNCHANGED <<pkt, frame, hw_frame, codec_ctx, fmt_ctx, hw_device_ctx, netInit,
                   video_stream_index, use_rga, codec_id, codecSel, hwBound,
                   hwRefs, hwCreate, codecOpened, freed, wildFree>>

(* ------------------------------ read() --------------------------------- *)

\* the members and bookkeeping no branch of read() writes
readFixed == <<netInit, fmt_ctx, codec_ctx, hw_device_ctx, pkt, frame, hw_frame,
               video_stream_index, codec_id, codecSel, hwBound, hwRefs,
               ctorErr, hwCreate, codecOpened, freed, wildFree, released>>

\* the track a packet can be tagged with
StreamIndexes == 0..(MaxStreams - 1)

\* a bug: every packet taken for a packet of the selected track
IsVideoPacket_Any(idx) == TRUE

\* `pkt->stream_index == video_stream_index`
IsVideoPacket(idx) == idx = video_stream_index

\* the results of avcodec_receive_frame the code tells apart, and the branch
\* each one takes
RecvResults == {"OK", "EAGAIN", "AVERROR_EOF", "ERROR"}
RecvBranch(ret) ==
    IF ret \in {"EAGAIN", "AVERROR_EOF"} THEN "continue"
    ELSE IF ret = "ERROR" THEN "throw"
    ELSE "frame"

\* `use_rga && frame->format == AV_PIX_FMT_DRM_PRIME`
TransferGuard(use, fmt) == use /\ fmt = "DRM_PRIME"

\* a bug: the failed transfer skips the frame but leaves the flag alone
UseRgaAfterTransfer_Keep(use, ok) == use

\* use_rga after the transfer block
UseRgaAfterTransfer(use, ok) == IF ok THEN use ELSE FALSE

\* a bug: the hardware convert gated on the pixel format alone
RgaGuard_FormatOnly(use, fmt) == fmt = "NV12"

\* `use_rga && src_format == AV_PIX_FMT_NV12`
RgaGuard(use, fmt) == use /\ fmt = "NV12"

\* a bug: a failed convert_with_rga falls back for this frame only
UseRgaAfterConvert_Keep(use, tried, ok) == use

\* a bug: the flag restored from the outcome of the frame's conversion
UseRgaAfterConvert_Reprobe(use, tried, ok) == tried => ok

\* use_rga after the RGA block: cleared when convert_with_rga returned false
UseRgaAfterConvert(use, tried, ok) == IF tried /\ ~ok THEN FALSE ELSE use

\* sws_getContext takes host pixel formats only: for a DRM_PRIME surface, or
\* an AVFrame that holds no picture, it returns NULL
SwsSupportedInput(fmt) == fmt \in HostFormats

\* a bug: rows and columns given in the order (width, height)
out_mat_Swapped(height, width) ==
    [rows |-> width, cols |-> height, channels |-> CV_8UC3_channels,
     elemSize1 |-> CV_8UC3_elemSize1]

\* `cv::Mat out_mat(height, width, CV_8UC3)`
out_mat(height, width) ==
    [rows |-> height, cols |-> width, channels |-> CV_8UC3_channels,
     elemSize1 |-> CV_8UC3_elemSize1]

\* the buffer_info the Mat binding hands to NumPy
def_buffer(mat) ==
    IF mat.rows = 0 \/ mat.cols = 0
    THEN [ok |-> FALSE, format |-> "none", itemsize |-> 0, ndim |-> 0, shape |-> <<>>]
    ELSE LET format == IF mat.elemSize1 = 1 THEN "uint8"
                       ELSE IF mat.elemSize1 = 2 THEN "uint16"
                       ELSE "uint8"
         IN  IF mat.channels = 1
             THEN [ok |-> TRUE, format |-> format, itemsize |-> mat.elemSize1,
                   ndim |-> 2, shape |-> <<mat.rows, mat.cols>>]
             ELSE [ok |-> TRUE, format |-> format, itemsize |-> mat.elemSize1,
                   ndim |-> 3, shape |-> <<mat.rows, mat.cols, mat.channels>>]

\* the pixel formats the opened decoder can deliver: only the vendor decoder
\* emits DRM_PRIME surfaces
DecoderFormats == IF codecSel = "rkmpp" THEN PixFormats ELSE HostFormats

\* the frames avcodec_receive_frame can write into *frame for the packet
\* being pulled
DecodedFrames ==
    {[format |-> f, width |-> r.width, height |-> r.height] :
        f \in DecoderFormats, r \in Resolutions}

\* *frame after avcodec_receive_frame: the function unreferences the frame
\* first, so it holds a picture only when the call returned 0
FrameAfterReceive(ret, f) == IF ret = "OK" THEN f ELSE EmptyFrame

Thrown(e, cause) ==
    [kind |-> "error", err |-> e, mat |-> NoMat, path |-> "none", seq |-> 0,
     cause |-> cause]

Returned(mat, path, seq) ==
    [kind |-> "frame", err |-> NoErr, mat |-> mat, path |-> path, seq |-> seq,
     cause |-> "none"]

\* a bug: an empty Mat returned at end of stream
AtLoopExit_Sentinel(cause) == Returned(NoMat, "none", 0)

\* what read() does once the while loop is left
AtLoopExit(cause) == Thrown(ErrRead, cause)

\* what read() does when avcodec_receive_frame fails with a real error
AtReceiveError == Thrown(ErrDecode, "decoder")

\* a bug: the packet unreferenced only after the status of
\* avcodec_receive_frame was checked, so the `continue` and the throw skip it
UnrefSites_AfterStatusCheck(branch) ==
    CASE branch = "read_failed" -> {}
      [] branch = "non_video" -> {206}
      [] branch = "send_failed" -> {145}
      [] branch \in {"no_output", "decode_error"} -> {}
      [] OTHER -> {150}

\* the av_packet_unref calls (by line) one loop iteration executes, for the
\* branch it takes: line 145 when the send failed, line 150 right after
\* avcodec_receive_frame on every other path of a video packet (each of which
\* leaves the iteration by continue, return or throw before line 206), line
\* 206 when the packet is of another track; none when av_read_frame failed
UnrefSites(branch) ==
    CASE branch = "read_failed" -> {}
      [] branch = "non_video" -> {206}
      [] branch = "send_failed" -> {145}
      [] OTHER -> {150}

\* the references av_read_frame handed out for the iteration's packet
RefsObtained(branch) == IF branch = "read_failed" THEN 0 ELSE 1

\* bookkeeping of one loop iteration
Iteration(branch, idx) ==
    [call EXCEPT !.last = branch, !.idx = idx, !.sent = FALSE, !.decoded = FALSE,
                 !.src = EmptyFrame, !.xfer = "none", !.rga = "none",
                 !.sws = "none", !.unrefs = Cardinality(UnrefSites(branch)),
                 !.held = RefsObtained(branch) - Cardinality(UnrefSites(branch)),
                 !.resized = FALSE]

\* entry of read()
ReadBegin ==
    /\ pc = "ready"
    /\ call' = [NoCall EXCEPT !.start = pulled, !.last = "begin"]
    /\ pc' = "reading"
    /\ result' = NoResult
    /\ UNCHANGED <<use_rga, remaining, pulled, frameBuf, hist>>
    /\ UNCHANGED readFixed

\* av_read_frame returns < 0: end of file, or a transport failure
ReadEnd ==
    /\ pc = "reading"
    /\ \E cause \in (IF remaining = 0 THEN {"eof"} ELSE {"eof", "transport"}) :
         /\ result' = AtLoopExit(cause)
         /\ hist' = IF cause = "eof"
                    THEN Ended([hist EXCEPT !.eof = TRUE], AtLoopExit(cause))
                    ELSE Invalid(hist)
         /\ remaining' = IF cause = "eof" THEN 0 ELSE remaining
    /\ pc' = "ready"
    /\ call' = Iteration("read_failed", NoStream)
    /\ UNCHANGED <<use_rga, pulled, frameBuf>>
    /\ UNCHANGED readFixed

\* av_read_frame returns >= 0: one packet leaves the source
Pull ==
    /\ pc = "reading"
    /\ remaining > 0
    /\ remaining' = remaining - 1
    /\ pulled' = pulled + 1

\* a packet of another track: unreferenced, next iteration
ReadNonVideo ==
    \E idx \in StreamIndexes :
        /\ Pull
        /\ ~IsVideoPacket(idx)
        /\ call' = Iteration("non_video", idx)
        /\ hist' = Invalid(hist)
        /\ UNCHANGED <<pc, use_rga, frameBuf, result>>
        /\ UNCHANGED readFixed

\* a bug: a failed avcodec_send_packet treated like a failed receive
ReadSendFail_Throws ==
    \E idx \in StreamIndexes :
        /\ Pull
        /\ IsVideoPacket(idx)
        /\ call' = [Iteration("send_failed", idx) EXCEPT !.sent = TRUE]
        /\ hist' = Invalid([hist EXCEPT !.hiccup = TRUE, !.decodeThrown = TRUE])
        /\ result' = Thrown(ErrDecode, "decoder")
        /\ pc' = "ready"
        /\ UNCHANGED <<use_rga, frameBuf>>
        /\ UNCHANGED readFixed

\* a bug: the failed send is tried again on the same packet, no new packet
\* being pulled
ReadSendFail_Retries ==
    \E idx \in StreamIndexes :
        /\ pc = "reading"
        /\ remaining > 0
        /\ IsVideoPacket(idx)
        /\ call' = [Iteration("send_failed", idx) EXCEPT !.sent = TRUE, !.unrefs = 0, !.held = 1]
        /\ hist' = Invalid([hist EXCEPT !.hiccup = TRUE])
        /\ UNCHANGED <<pc, use_rga, frameBuf, result, remaining, pulled>>
        /\ UNCHANGED readFixed

\* avcodec_send_packet fails: unreferenced, next iteration
ReadSendFail ==
    \E idx \in StreamIndexes :
        /\ Pull
        /\ IsVideoPacket(idx)
        /\ call' = [Iteration("send_failed", idx) EXCEPT !.sent = TRUE]
        /\ hist' = Invalid([hist EXCEPT !.hiccup = TRUE])
        /\ UNCHANGED <<pc, use_rga, frameBuf, result>>
        /\ UNCHANGED readFixed

\* a bug: no-output-yet leaves the loop (`break` for `continue`)
ReadNoOutput_Breaks ==
    \E idx \in StreamIndexes :
        /\ Pull
        /\ IsVideoPacket(idx)
        /\ \E ret \in RecvResults :
             /\ RecvBranch(ret) = "continue"
             /\ frameBuf' = FrameAfterReceive(ret, EmptyFrame)
             /\ hist' = IF ret = "EAGAIN"
                        THEN Ended(Withheld(hist), AtLoopExit("eof"))
                        ELSE Invalid(hist)
        /\ call' = [Iteration("no_output", idx) EXCEPT !.sent = TRUE]
        /\ result' = AtLoopExit("eof")
        /\ pc' = "ready"
        /\ UNCHANGED use_rga
        /\ UNCHANGED readFixed

\* avcodec_receive_frame reports EAGAIN or AVERROR_EOF: next iteration
ReadNoOutput ==
    \E idx \in StreamIndexes :
        /\ Pull
        /\ IsVideoPacket(idx)
        /\ \E ret \in RecvResults :
             /\ RecvBranch(ret) = "continue"
             /\ frameBuf' = FrameAfterReceive(ret, EmptyFrame)
             /\ hist' = IF ret = "EAGAIN" THEN Withheld(hist) ELSE Invalid(hist)
        /\ call' = [Iteration("no_output", idx) EXCEPT !.sent = TRUE]
        /\ UNCHANGED <<pc, use_rga, result>>
        /\ UNCHANGED readFixed

\* a bug: the decode error treated as fatal for the reader, which closes
\* the decoder before it throws
ReadDecodeError_Closes ==
    \E idx \in StreamIndexes :
        /\ Pull
        /\ IsVideoPacket(idx)
        /\ \E ret \in RecvResults :
             /\ RecvBranch(ret) = "throw"
             /\ frameBuf' = FrameAfterReceive(ret, EmptyFrame)
        /\ call' = [Iteration("decode_error", idx) EXCEPT !.sent = TRUE]
        /\ hist' = Invalid([hist EXCEPT !.hiccup = TRUE, !.decodeThrown = TRUE])
        /\ result' = Thrown(ErrDecode, "decoder")
        /\ pc' = "ready"
        /\ codec_ctx' = NULL
        /\ hwBound' = FALSE
        /\ UNCHANGED <<use_rga, netInit, fmt_ctx, hw_device_ctx, pkt, frame, hw_frame,
                       video_stream_index, codec_id, codecSel, hwRefs, ctorErr, hwCreate,
                       codecOpened, freed, wildFree, released>>

\* avcodec_receive_frame fails otherwise: read() throws
ReadDecodeError ==
    \E idx \in StreamIndexes :
        /\ Pull
        /\ IsVideoPacket(idx)
        /\ \E ret \in RecvResults :
             /\ RecvBranch(ret) = "throw"
             /\ frameBuf' = FrameAfterReceive(ret, EmptyFrame)
        /\ call' = [Iteration("decode_error", idx) EXCEPT !.sent = TRUE]
        /\ hist' = Invalid([hist EXCEPT !.hiccup = TRUE, !.decodeThrown = TRUE])
        /\ result' = AtReceiveError
        /\ pc' = "ready"
        /\ UNCHANGED use_rga
        /\ UNCHANGED readFixed

\* av_hwframe_transfer_data fails: the flag is cleared, next iteration
ReadTransferFail ==
    \E idx \in StreamIndexes :
        /\ Pull
        /\ IsVideoPacket(idx)
        /\ \E ret \in {r \in RecvResults : RecvBranch(r) = "frame"}, f \in DecodedFrames :
             LET d == FrameAfterReceive(ret, f)
             IN  /\ TransferGuard(use_rga, d.format)
                 /\ frameBuf' = d
                 /\ call' = [Iteration("transfer_failed", idx) EXCEPT
                               !.sent = TRUE, !.decoded = (ret = "OK"),
                               !.xfer = "failed"]
        /\ use_rga' = UseRgaAfterTransfer(use_rga, FALSE)
        /\ hist' = Invalid([hist EXCEPT !.xferFail = TRUE])
        /\ UNCHANGED <<pc, result>>
        /\ UNCHANGED readFixed

\* lines 158..204 for a frame whose transfer, if any, succeeded: the frame
\* handed to the converters, the Mat, the calls made and how read() ends.
\* A successful av_hwframe_transfer_data leaves in *hw_frame the picture of
\* *frame, same width and height, in a host format.
Convert(use, d, seq, xferFormat, rgaOk, swsOk) ==
    LET transferred == TransferGuard(use, d.format)
        src == IF transferred THEN [d EXCEPT !.format = xferFormat] ELSE d
        use1 == UseRgaAfterTransfer(use, TRUE)
        mat == out_mat(src.height, src.width)
        tryRga == RgaGuard(use1, src.format)
        use2 == UseRgaAfterConvert(use1, tryRga, rgaOk)
        viaRga == tryRga /\ rgaOk
        swsBuilt == swsOk /\ SwsSupportedInput(src.format)
    IN  [src |-> src,
         transferred |-> transferred,
         use_rga |-> use2,
         xfer |-> IF transferred THEN "ok" ELSE "none",
         rga |-> IF ~tryRga THEN "none" ELSE IF rgaOk THEN "ok" ELSE "failed",
         sws |-> IF viaRga THEN "none" ELSE IF swsBuilt THEN "ok" ELSE "failed",
         result |-> IF viaRga THEN Returned(mat, "rga", seq)
                    ELSE IF swsBuilt THEN Returned(mat, "sws", seq)
                    ELSE Thrown(ErrSws, "sws_getContext")]

\* the host format av_hwframe_transfer_data delivers, when it is called
TransferFormats(use, d) ==
    IF TransferGuard(use, d.format) THEN HostFormats ELSE {d.format}

\* a decoded frame reaches the converters (its transfer, if any, succeeded):
\* read() returns the Mat, or throws when sws_getContext returns NULL
ReadConvert ==
    \E idx \in StreamIndexes :
        /\ Pull
        /\ IsVideoPacket(idx)
        /\ \E ret \in RecvResults :
             /\ RecvBranch(ret) = "frame"
             /\ \E f \in DecodedFrames :
                  LET d == FrameAfterReceive(ret, f)
                  IN  \E xferFormat \in TransferFormats(use_rga, d),
                         rgaOk \in BOOLEAN, swsOk \in BOOLEAN :
                        LET c == Convert(use_rga, d, pulled + 1, xferFormat, rgaOk, swsOk)
                        IN  /\ frameBuf' = d
                            /\ use_rga' = c.use_rga
                            /\ call' = [Iteration(IF c.result.kind = "error" THEN "throw"
                                                  ELSE c.result.path, idx) EXCEPT
                                          !.sent = TRUE, !.decoded = (ret = "OK"),
                                          !.src = c.src, !.xfer = c.xfer, !.rga = c.rga,
                                          !.sws = c.sws,
                                          !.resized =
                                              /\ frameBuf # EmptyFrame
                                              /\ <<frameBuf.width, frameBuf.height>> #
                                                     <<d.width, d.height>>]
                            /\ hist' =
                                 LET h == [hist EXCEPT !.rgaFail = @ \/ c.rga = "failed"]
                                 IN  IF c.result.kind = "frame"
                                     THEN Ended(h, c.result) ELSE Invalid(h)
                            /\ result' = c.result
        /\ pc' = "ready"
        /\ UNCHANGED readFixed

Next ==
    \/ Construct
    \/ Destroy
    \/ release
    \/ ReadBegin
    \/ ReadEnd
    \/ ReadNonVideo
    \/ ReadSendFail
    \/ ReadNoOutput
    \/ ReadDecodeError
    \/ ReadTransferFail
    \/ ReadConvert

Spec == Init /\ [][Next]_vars

\* one evaluation of the while condition of read() and of the loop body
ReadStep ==
    \/ ReadEnd
    \/ ReadNonVideo
    \/ ReadSendFail
    \/ ReadNoOutput
    \/ ReadDecodeError
    \/ ReadTransferFail
    \/ ReadConvert

\* the life of a reader on which release() is not called (its body is empty
\* and read() never looks at what it did)
ReadNext ==
    \/ Construct
    \/ Destroy
    \/ ReadBegin
    \/ ReadStep

\* read() is straight-line code on the caller's thread and av_read_frame
\* returns: a call that has begun keeps executing its loop
FairSpec == Init /\ [][ReadNext]_vars /\ WF_vars(ReadStep)

(* ------------------------------ claims --------------------------------- *)

\* a step of read() that pulled a packet from the session
PulledStep == pulled' = pulled + 1

\* C1: the hardware color-convert flag use_rga is monotone: once it is false
\* it is false in every later state of the reader, whatever the outcomes of
\* the read() calls.
C1_FlagMonotone == [][~use_rga => ~use_rga']_vars

\* C1 witness: the flag was cleared by a failed hardware convert and the
\* reader went on to return a frame from a later packet with the flag still
\* cleared.
C1_Witness ==
    /\ pc = "ready"
    /\ ~use_rga
    /\ hist.rgaFail
    /\ result.kind = "frame"
    /\ call.rga = "none"
    /\ codecSel = "rkmpp"
    /\ hwCreate = "ok"

\* C2 (as claimed): after release(), every later read() fails with the
\* closed-reader error: it pulls no packet and returns no frame.
C2_ReadAfterReleaseFails ==
    [][released > 0 =>
         /\ pulled' = pulled
         /\ (pc = "ready" /\ call'.last = "begin") =>
                (pc' = "ready" /\ result'.err = "ClosedError")]_vars

\* C3 (as claimed): only the conversion error and the end-of-stream error
\* escape read(); a decoder failure, on send or on receive, is absorbed.
C3_OnlyConversionAndEndOfStream ==
    /\ result.kind = "error" => result.err \in {ErrSws, ErrRead}
    /\ call.last \in {"send_failed", "decode_error"} => pc = "reading"

\* C3 (amended): the errors that escape read() are the conversion error, the
\* end-of-stream error and the decode error; the decode error is thrown
\* exactly when avcodec_receive_frame fails with something other than
\* "no output yet" / end of stream, and a failure of avcodec_send_packet is
\* absorbed: read() goes on to the next packet.
C3_EscapingErrors ==
    /\ result.kind = "error" => result.err \in {ErrSws, ErrRead, ErrDecode}
    /\ result.err = ErrDecode <=> (pc = "ready" /\ call.last = "decode_error")
    /\ result.err = ErrSws <=> (pc = "ready" /\ call.last = "throw")
    /\ result.err = ErrRead <=> (pc = "ready" /\ call.last = "read_failed")
    /\ call.last \in {"send_failed", "no_output"} =>
          pc = "reading" /\ result.kind = "none"

\* C3 witness: a read() absorbed a send failure and later threw the decode
\* error on a failed receive.
C3_Witness ==
    /\ pc = "ready"
    /\ result.err = ErrDecode
    /\ pulled >= call.start + 2

\* the native resources the constructor acquires are all released
NothingAcquired ==
    /\ netInit = 0
    /\ fmt_ctx # LIVE
    /\ codec_ctx # LIVE
    /\ hw_device_ctx # LIVE
    /\ hwRefs = 0

\* C4 (as claimed): at every point at which construction fails, every native
\* resource acquired so far (demuxer context, codec context, hardware device
\* context, network initialisation) has been released when the error
\* propagates; in particular after the no-video-track error.
C4_FailedConstructionReleasesAll ==
    /\ pc = "failed" => NothingAcquired
    /\ ctorErr = ErrNoVideo => NothingAcquired

\* C5: read() never returns an empty or sentinel frame: when the packet
\* source yields nothing further, read() ends with the end-of-stream error;
\* when read() returns a frame, the Mat is not empty and was converted from
\* the frame decoded from a packet pulled during that same call.
C5_NoSentinelFrame ==
    /\ (pc = "ready" /\ call.last = "read_failed") =>
          (result.kind = "error" /\ result.err = ErrRead)
    /\ (pc = "ready" /\ call.last # "none") => result.kind \in {"frame", "error"}
    /\ result.kind = "frame" =>
          /\ pc = "ready"
          /\ def_buffer(result.mat).ok
          /\ call.decoded
          /\ result.seq = pulled
          /\ result.seq > call.start
          /\ call.src.width = frameBuf.width
          /\ call.src.height = frameBuf.height

\* C5 witness: a read() call pulled packets that gave no frame (another
\* track's packet, a send failure, no output yet) until the source ended,
\* and raised the end-of-stream error.
C5_Witness ==
    /\ pc = "ready"
    /\ call.last = "read_failed"
    /\ result.cause = "eof"
    /\ pulled > call.start

\* the session, the decoder and the buffers of a constructed reader are all
\* in place
ReaderIntact ==
    /\ fmt_ctx = LIVE
    /\ codec_ctx = LIVE
    /\ pkt = LIVE
    /\ frame = LIVE
    /\ hw_frame = LIVE

\* C6 (as claimed): after a decoder failure on a packet, the reader stays
\* usable and read() returns a frame as soon as a later packet of the
\* selected track decodes successfully.
C6_FrameAsSoonAsDecoded ==
    [][(hist.hiccup /\ pc = "reading" /\ PulledStep /\ call'.decoded) =>
          (pc' = "ready" /\ result'.kind = "frame" /\ result'.seq = pulled')]_vars

\* C6 (amended): after a decoder failure on a packet (absorbed or raised),
\* the reader is still usable with its session, decoder and buffers intact,
\* and read() returns the frame of the first later packet that decodes
\* successfully and whose hardware-to-host transfer (if attempted) and
\* conversion do not fail.
C6_HiccupRecovers ==
    [][(hist.hiccup /\ pc \in {"ready", "reading"}) =>
          /\ ReaderIntact
          /\ (pc' # "destroyed" => ReaderIntact')
          /\ (PulledStep /\ call'.decoded /\ call'.xfer # "failed"
                /\ call'.sws # "failed") =>
                (pc' = "ready" /\ result'.kind = "frame" /\ result'.seq = pulled')]_vars

\* C6 witness: a read() raised the decode error, and a later read() returned
\* a frame.
C6_Witness ==
    /\ pc = "ready"
    /\ hist.decodeThrown
    /\ result.kind = "frame"
    /\ call.start >= 1

\* C7: convert_with_rga is invoked only where the flag is enabled and the
\* source frame is NV12; once the flag is disabled no read() invokes it and
\* every frame returned comes from the swscale path.
C7_RgaOnlyWhenEnabled ==
    [][PulledStep =>
          /\ call'.rga # "none" => (use_rga /\ call'.src.format = "NV12")
          /\ ~use_rga =>
                /\ call'.rga = "none"
                /\ result'.kind = "frame" => result'.path = "sws"]_vars

\* C7 witness: on a reader that started with the hardware path, the flag was
\* cleared and an NV12 frame was then returned by swscale without the
\* hardware converter being invoked.
C7_Witness ==
    /\ pc = "ready"
    /\ hwCreate = "ok"
    /\ ~use_rga
    /\ result.kind = "frame"
    /\ result.path = "sws"
    /\ call.src.format = "NV12"
    /\ call.rga = "none"

\* C8: a failed hardware-to-host transfer clears the flag, does not raise,
\* and read() goes on to the next packet; no later frame of the reader is
\* transferred or converted through the hardware path.
C8_TransferFailureDegrades ==
    [][PulledStep =>
          /\ call'.xfer = "failed" =>
                /\ ~use_rga'
                /\ hist'.xferFail
                /\ pc' = "reading"
                /\ result' = result
                /\ result'.kind = "none"
          /\ hist.xferFail =>
                /\ call'.xfer = "none"
                /\ call'.rga = "none"
                /\ result'.kind = "frame" => result'.path = "sws"]_vars

\* C8 witness: after a failed transfer the same read() call went on and
\* returned the frame of a later packet.
C8_Witness ==
    /\ pc = "ready"
    /\ hist.xferFail
    /\ result.kind = "frame"
    /\ pulled >= call.start + 2

C10_HwCreateFailureNonFatal ==
    hwCreate = "failed" =>
        /\ codecSel = "rkmpp"
        /\ ctorErr \in {NoErr, ErrCodecOpen}
        /\ hw_device_ctx = NULL
        /\ ~hwBound
        /\ hwRefs = 0
        /\ ~use_rga
        /\ codecOpened <=> pc \in {"ready", "reading", "destroyed"}
        /\ pc \in {"ready", "reading"} => codec_ctx = LIVE

\* C10 witness: a reader whose device creation failed was constructed and
\* returned a frame.
C10_Witness ==
    /\ hwCreate = "failed"
    /\ pc = "ready"
    /\ result.kind = "frame"

\* C11: release() any number of times followed by the destruction of the
\* reader never fails and releases each native resource (packet, frames,
\* codec context, demuxer context, hardware device context) at most once.
C11_ReleaseThenDestroyFreesOnce ==
    /\ \A r \in Resources : freed[r] <= 1
    /\ hwRefs >= 0
    /\ netInit >= 0
    /\ released > 0 =>
          /\ pc # "crashed"
          /\ ~wildFree
          /\ pc = "destroyed" =>
                /\ \A r \in Resources \ {"hw_device_ctx"} : freed[r] = 1
                /\ freed["hw_device_ctx"] = (IF hwCreate = "ok" THEN 1 ELSE 0)
                /\ hwRefs = 0
                /\ netInit = 0

\* C11 witness: a reader with a hardware device was released twice and then
\* destroyed.
C11_Witness ==
    /\ released >= 2
    /\ pc = "destroyed"
    /\ hwCreate = "ok"

\* the source delivered exactly three packets, all valid packets of the
\* selected track, and then reported end of file
ThreeValidPacketsThenEof == hist.allValid /\ hist.eof /\ pulled = 3

\* C12 as stated: against a source that emits exactly 3 valid video packets
\* of the selected track and then end of file, the first two read() calls
\* each return a frame and the third fails with the end-of-stream error.
C12_TwoFramesThenEndOfStream ==
    ThreeValidPacketsThenEof =>
        \A k \in 1..3 :
            k <= Len(hist.outcomes) =>
                hist.outcomes[k] = <<"frame", "frame", ErrRead>>[k]

\* C12 amended: against such a source read() returns one frame per packet the
\* decoder answered with a frame, and the first call that finds the source
\* exhausted fails with the end-of-stream error; a frame the decoder
\* withheld is never delivered.  Two frames then the error is the case of
\* one withheld packet; with none withheld the third call returns a frame.
C12_FramePerDecodedPacket ==
    ThreeValidPacketsThenEof =>
        LET n == 3 - hist.withheld
        IN  /\ Len(hist.outcomes) > n
            /\ \A k \in 1..Len(hist.outcomes) :
                   hist.outcomes[k] = (IF k <= n THEN "frame" ELSE ErrRead)

\* C12 witness: the decoder withheld the output of one of the three packets;
\* two calls returned frames and the third failed.
C12_Witness ==
    /\ ThreeValidPacketsThenEof
    /\ hist.withheld = 1
    /\ Len(hist.outcomes) >= 3
    /\ hist.outcomes[1] = "frame"
    /\ hist.outcomes[2] = "frame"
    /\ hist.outcomes[3] = ErrRead

\* the failure mode of the failure that escaped the constructor or the last
\* read() call ("none": no failure, or one of the allocation failures)
EscapedFailure ==
    IF pc = "failed"
    THEN CASE ctorErr = ErrOpen -> "open_failure"
           [] ctorErr = ErrNoVideo -> "no_video_track"
           [] ctorErr = ErrUnsupported -> "unsupported_codec"
           [] OTHER -> "none"
    ELSE IF result.kind = "error"
    THEN CASE result.err = ErrRead /\ result.cause = "eof" -> "stream_ended"
           [] result.err = ErrRead /\ result.cause = "transport" -> "transport_failure"
           [] result.err = ErrDecode -> "decode_error"
           [] result.err = ErrSws -> "conversion_error"
           [] OTHER -> "none"
    ELSE "none"

\* C13: every failure that escapes construction or read() carries an error
\* kind that no other failure mode carries: stream ended, transport read
\* failure, unsupported codec, no video track, open failure, decode error and
\* conversion error are pairwise distinguishable by kind.
C13_FailuresDistinguishableByKind ==
    EscapedFailure # "none" =>
        \A other \in FailureModes \ {EscapedFailure} :
            ExceptionOf(MessageOf(other)).type #
                ExceptionOf(MessageOf(EscapedFailure)).type

\* C14: in every read() call a decoded frame that is hardware-resident
\* (DRM_PRIME) is copied to a host-resident frame before it is handed to any
\* converter, and the transfer is skipped only for frames that are already
\* host-resident, whatever the state of the hardware color-convert flag.
C14_HardwareFrameTransferredFirst ==
    call.decoded =>
        /\ frameBuf.format = "DRM_PRIME" => call.xfer # "none"
        /\ call.xfer = "none" => frameBuf.format \in HostFormats
        /\ (call.rga # "none" \/ call.sws # "none") =>
               call.src.format \in HostFormats

\* C15: when the hardware color-convert of a frame fails inside read(), the
\* flag is cleared and the same frame is converted by the software path
\* within the same call: the call returns that frame, provided the software
\* conversion context can be built (and raises the conversion error if not).
C15_RgaFailureFallsBackInCall ==
    [][(PulledStep /\ call'.rga = "failed") =>
          /\ ~use_rga'
          /\ pc' = "ready"
          /\ call'.sws # "none"
          /\ call'.sws = "ok" =>
                /\ result'.kind = "frame"
                /\ result'.path = "sws"
                /\ result'.seq = pulled'
                /\ result'.mat = out_mat(call'.src.height, call'.src.width)
          /\ call'.sws = "failed" =>
                /\ result'.kind = "error"
                /\ result'.err = ErrSws]_vars

\* C15 witness: a read() whose hardware convert failed returned the frame
\* through the software path.
C15_Witness ==
    /\ pc = "ready"
    /\ call.rga = "failed"
    /\ call.sws = "ok"
    /\ result.kind = "frame"
    /\ result.path = "sws"
    /\ ~use_rga

\* C16: after every successful construction the hardware color-convert flag
\* is enabled only if a vendor hardware decoder (rkmpp, for H.264 or HEVC)
\* was selected and a hardware device context was created and bound to the
\* decoder; for any other codec, or when the generic decoder was used, the
\* flag is disabled from the start and no device is created.
C16_FlagNeedsVendorDecoderAndDevice ==
    pc \in {"ready", "reading"} =>
        /\ use_rga =>
              /\ codecSel = "rkmpp"
              /\ codec_id \in {"H264", "HEVC"}
              /\ hwCreate = "ok"
              /\ hw_device_ctx = LIVE
              /\ hwBound
        /\ (codec_id \notin {"H264", "HEVC"} \/ codecSel = "generic") =>
              /\ ~use_rga
              /\ hwCreate = "notTried"
              /\ hw_device_ctx = NULL
              /\ ~hwBound
        /\ pulled = 0 =>
              (use_rga <=> (codecSel = "rkmpp" /\ hwCreate = "ok"))

\* C16 witness: one reader constructed with the flag enabled, before its
\* first packet.
C16_Witness ==
    /\ pc = "ready"
    /\ pulled = 0
    /\ use_rga
    /\ codecSel = "rkmpp"
    /\ hwBound

\* C17: read() never sends a packet whose track index differs from the
\* selected video track to the decoder: such a packet is unreferenced and the
\* loop goes on to the next packet, with the decoder's frame, the flag and
\* the reader's state unchanged.
C17_OtherTracksNeverDecoded ==
    [][PulledStep =>
          /\ call'.sent => call'.idx = video_stream_index
          /\ call'.idx # video_stream_index =>
                /\ ~call'.sent
                /\ ~call'.decoded
                /\ call'.unrefs = 1
                /\ pc' = "reading"
                /\ use_rga' = use_rga
                /\ frameBuf' = frameBuf
                /\ result' = result
                /\ codec_ctx' = codec_ctx]_vars

\* C17 witness: read() has just discarded a packet of another track, after
\* a packet of the selected track, and is about to pull the next.
C17_Witness ==
    /\ pc = "reading"
    /\ call.last = "non_video"
    /\ call.idx # video_stream_index
    /\ call.idx \in StreamIndexes
    /\ ~call.sent
    /\ pulled - call.start >= 2
    /\ remaining > 0

\* C18: cleanup() releases only handles that were acquired: on every path on
\* which it runs, the packet, frame and hardware-frame handles it frees are
\* null or were allocated earlier by the constructor; it never passes a
\* handle that was never initialised to a free function.
C18_CleanupFreesOnlyAcquired ==
    /\ ~wildFree
    /\ pc # "crashed"

\* C19: every read() terminates, the packet source being finite: each
\* iteration that stays in the loop has consumed exactly one new packet, no
\* packet is consumed twice, and the call ends by returning a frame or
\* raising an error.
C19_ReadTerminates ==
    /\ [][/\ pulled' \in {pulled, pulled + 1}
          /\ pulled' = pulled + 1 => remaining' = remaining - 1
          /\ remaining' <= remaining
          /\ (pc = "reading" /\ pc' = "reading") =>
                (pulled' = pulled + 1 /\ remaining > 0)
          /\ (pc = "reading" /\ pc' # "reading") =>
                (pc' = "ready" /\ result'.kind \in {"frame", "error"})]_vars
    /\ (pc = "reading") ~> (pc = "ready")

\* C19 witness: one read() call consumed every packet of the source, three
\* or more, and ended with the end-of-stream error.
C19_Witness ==
    /\ pc = "ready"
    /\ result.kind = "error"
    /\ result.cause = "eof"
    /\ remaining = 0
    /\ call.start = 0
    /\ pulled >= 3

\* C20: every packet obtained inside read() is unreferenced exactly once
\* before the next packet is pulled and before read() exits, on every exit
\* path and on every retry branch: read() holds no referenced packet when it
\* pulls again, returns or raises.
C20_PacketUnreferencedOnce ==
    call.last \notin {"none", "begin"} =>
        /\ call.unrefs = (IF call.last = "read_failed" THEN 0 ELSE 1)
        /\ call.held = 0

\* C20 witness: a read() call went through a retry branch and then raised
\* the decode error, its last packet unreferenced once.
C20_Witness ==
    /\ pc = "ready"
    /\ call.last = "decode_error"
    /\ result.err = ErrDecode
    /\ pulled - call.start >= 2
    /\ call.unrefs = 1
    /\ call.held = 0

====
